---- MODULE Spec2Model ----
(***************************************************************************)
(* A model of ts-retry-helper.                                             *)
(*                                                                         *)
(* The repository holds one retry engine in several versions:              *)
(*   - RetryHelper.run() with its RetryOption classes                      *)
(*     (src/src/RetryHelpers.ts, repeated in src/src/RetryHelper.ts);      *)
(*   - the class method RetryHelper.retry() (src/src/RetryHelper.ts);      *)
(*   - two versions of the function retry(thunk, opts)                     *)
(*     (src/src/RetryHelper.ts).                                           *)
(* A behaviour of Spec drives one of them, chosen in Init. A behaviour of   *)
(* UnitSpec calls the methods of one option instance, or of one            *)
(* LinearBackoffPolicy, directly.                                          *)
(* A behaviour of PairSpec runs two RetryHelpers in one process.           *)
(***************************************************************************)
EXTENDS Integers, Sequences, FiniteSets, TLC

\* ------------------------------------------------------------------ bounds

MaxAttemptsBound == 3   \* maxAttempts ranges over 1..MaxAttemptsBound
MaxDelay == 2           \* the base delay of LinearBackoff ranges over 1..MaxDelay
MaxTotal == 2           \* totalTimeoutMs ranges over 1..MaxTotal
MaxOptions == 2         \* a RetryHelper holds at most MaxOptions options
MaxTicks == 3           \* the clock advances at most MaxTicks milliseconds
MaxCalls == 3           \* the operation is invoked at most MaxCalls times
LateClock == 998        \* the second of the two clock values a behaviour starts at
MaxJitter == 3          \* minJitterMs and maxJitterMs range over 0..MaxJitter
MaxPrevious == 1        \* previousDelayMs of a direct call ranges over 0..MaxPrevious
MaxPairOptions == 1     \* each of two concurrent RetryHelpers holds at most MaxPairOptions options

MsPerSecond == 1000     \* Date.getMilliseconds() is the time modulo one second

\* ------------------------------------------------------------------ values

Errors == {"ErrA", "ErrB"}      \* what the operation fails with
Values == {3}                   \* what the operation succeeds with
Undefined == <<>>               \* JavaScript's undefined
Some(v) == <<v>>                \* a defined value
Runs == {1}                     \* the RetryHelper instances of a behaviour
StartClocks == {0, LateClock}   \* Date.now() when the behaviour starts

\* What a promise settles to, or a callback throws. kind is the class of the
\* thrown value ("Resolved" for a fulfilled promise, "Raw" for a value thrown
\* as it is), message/cause are the fields of the exception.
Outcome(kind, value, message, cause) ==
    [kind |-> kind, value |-> value, message |-> message, cause |-> cause]
Pending == Outcome("Pending", Undefined, Undefined, Undefined)
Resolved(v) == Outcome("Resolved", v, Undefined, Undefined)
TypeError == Outcome("TypeError", Undefined, Undefined, Undefined)
ReferenceError == Outcome("ReferenceError", Undefined, Undefined, Undefined)
Raw(e) == Outcome("Raw", Some(e), Undefined, Undefined)

\* ------------------------------------------------ RetryHelpers.ts: options

\* The option classes, as [type, parameter] records.
MaxAttemptsRetryAllowed(n) ==
    [type |-> "MaxAttemptsRetryAllowed", maxAttempts |-> n, delay |-> 0,
     totalTimeoutMs |-> 0, errors |-> {}]
LinearBackoff(d) ==
    [type |-> "LinearBackoff", maxAttempts |-> 0, delay |-> d,
     totalTimeoutMs |-> 0, errors |-> {}]
MaxTimeout(t) ==
    [type |-> "MaxTimeout", maxAttempts |-> 0, delay |-> 0,
     totalTimeoutMs |-> t, errors |-> {}]
RetriableExceptions(errs) ==
    [type |-> "RetriableExceptions", maxAttempts |-> 0, delay |-> 0,
     totalTimeoutMs |-> 0, errors |-> errs]

\* The private fields of an option instance, as constructed.
NewOptionState == [attempts |-> 0, currentDelay |-> 0]

\* The exceptions of RetryHelpers.ts.
MaxAttemptsException(message, code) ==
    Outcome("MaxAttemptsException", Undefined, Some(message), Undefined)
MaxTimeoutException(message, code) ==
    Outcome("MaxTimeoutException", Undefined, Some(message), Undefined)
NonretriableException(message, code, cause) ==
    Outcome("NonretriableException", Undefined, Some(message), Some(cause))

\* Which of the two optional methods of RetryOption a class implements.
HasCheckRetryAllowed(opt) ==
    opt.type \in {"MaxAttemptsRetryAllowed", "MaxTimeout", "RetriableExceptions"}
HasRetryDelayMs(opt) == opt.type \in {"LinearBackoff", "DelayJitter"}

\* A call of a method of an option: the option's fields after it, what it
\* threw (Pending: nothing), what it returned and the timers it armed, each
\* timer as [kind, delay].
CallResult(state, thrown, returned, armed) ==
    [state |-> state, thrown |-> thrown, returned |-> returned, armed |-> armed]

\* A variant of MaxAttemptsCheck that decides on the engine's numAttempts, not
\* on the option's own counter.
MaxAttemptsCheckByNumAttempts(opt, st, numAttempts, timestamp, err) ==
    LET attempts == st.attempts + 1
        st1 == [st EXCEPT !.attempts = attempts]
    IN IF numAttempts >= opt.maxAttempts
       THEN CallResult(st1, MaxAttemptsException(<<"Max attempts exceeded", attempts>>, "429"),
                       0, <<>>)
       ELSE CallResult(st1, Pending, 0, <<>>)

MaxAttemptsCheck(opt, st, numAttempts, timestamp, err) ==
    LET attempts == st.attempts + 1
        st1 == [st EXCEPT !.attempts = attempts]
    IN IF attempts >= opt.maxAttempts
       THEN CallResult(st1, MaxAttemptsException(<<"Max attempts exceeded", attempts>>, "429"),
                       0, <<>>)
       ELSE CallResult(st1, Pending, 0, <<>>)

MaxTimeoutThrowTimeout(opt) ==
    MaxTimeoutException(<<"Attempt took longer than maximum specified", opt.totalTimeoutMs>>,
                        "408")

MaxTimeoutCheck(opt, st, numAttempts, timestamp, err) ==
    IF timestamp >= opt.totalTimeoutMs
    THEN CallResult(st, MaxTimeoutThrowTimeout(opt), 0, <<>>)
    ELSE CallResult(st, Pending, 0,
                    << [kind |-> "watchdog", delay |-> opt.totalTimeoutMs - timestamp] >>)

RetriableExceptionsCheck(opt, st, numAttempts, timestamp, err) ==
    IF err \in opt.errors
    THEN CallResult(st, Pending, 0, <<>>)
    ELSE CallResult(st, NonretriableException(<<"Attempt threw nonretriable exception", err>>,
                                              "500", err),
                    0, <<>>)

checkRetryAllowed(opt, st, numAttempts, timestamp, err) ==
    CASE opt.type = "MaxAttemptsRetryAllowed" ->
            MaxAttemptsCheck(opt, st, numAttempts, timestamp, err)
      [] opt.type = "MaxTimeout" ->
            MaxTimeoutCheck(opt, st, numAttempts, timestamp, err)
      [] opt.type = "RetriableExceptions" ->
            RetriableExceptionsCheck(opt, st, numAttempts, timestamp, err)

\* A variant of LinearBackoffDelay that returns the delay its timer is armed
\* with, previousDelayMs included.
LinearBackoffDelayTotal(opt, st, previousDelayMs, timestamp) ==
    LET currentDelay == st.currentDelay + opt.delay
        delay == previousDelayMs + currentDelay
    IN CallResult([st EXCEPT !.currentDelay = currentDelay], Pending, delay,
                  << [kind |-> "linear", delay |-> delay] >>)

LinearBackoffDelay(opt, st, previousDelayMs, timestamp) ==
    LET currentDelay == st.currentDelay + opt.delay
        delay == previousDelayMs + currentDelay
    IN CallResult([st EXCEPT !.currentDelay = currentDelay], Pending, currentDelay,
                  << [kind |-> "linear", delay |-> delay] >>)

retryDelayMs(opt, st, previousDelayMs, timestamp) ==
    CASE opt.type = "LinearBackoff" ->
            LinearBackoffDelay(opt, st, previousDelayMs, timestamp)

\* ---------------------------------------------- RetryHelpers.ts: run()

\* A variant of Propagates for which the for loop goes on after an exception.
PropagatesNot(c) == FALSE

\* An exception thrown by a method of an option leaves the for loop and run().
Propagates(c) == c.thrown # Pending

\* The catch block of run(): one pass over this.options, from option k on.
\* acc carries the state of the pass: the options' fields, delayMs, the
\* timers armed, the options whose checkRetryAllowed and retryDelayMs ran (in
\* the order of the calls) and the exception that ended the pass.
RECURSIVE OptionsLoop(_, _, _, _, _, _)
OptionsLoop(opts, k, numAttempts, timestamp, err, acc) ==
    IF k > Len(opts) THEN acc
    ELSE
      LET opt == opts[k]
          c == IF HasCheckRetryAllowed(opt)
               THEN checkRetryAllowed(opt, acc.optState[k], numAttempts, timestamp, err)
               ELSE CallResult(acc.optState[k], Pending, 0, <<>>)
          acc1 == [acc EXCEPT
                     !.optState[k] = c.state,
                     !.checked = IF HasCheckRetryAllowed(opt)
                                 THEN Append(@, [opt |-> k, threw |-> c.thrown # Pending])
                                 ELSE @,
                     !.armed = @ \o [j \in 1..Len(c.armed) |->
                                       [kind |-> c.armed[j].kind, opt |-> k,
                                        due |-> timestamp + c.armed[j].delay,
                                        delay |-> c.armed[j].delay]],
                     !.thrown = c.thrown,
                     !.vetoBy = IF c.thrown # Pending THEN k ELSE 0]
      IN IF Propagates(c) THEN acc1
         ELSE
           LET d == IF HasRetryDelayMs(opt)
                    THEN retryDelayMs(opt, acc1.optState[k], acc1.delayMs, timestamp)
                    ELSE CallResult(acc1.optState[k], Pending, acc1.delayMs, <<>>)
               acc2 == [acc1 EXCEPT
                          !.optState[k] = d.state,
                          !.delayMs = d.returned,
                          !.contributed = IF HasRetryDelayMs(opt) THEN Append(@, k) ELSE @,
                          !.armed = @ \o [j \in 1..Len(d.armed) |->
                                            [kind |-> d.armed[j].kind, opt |-> k,
                                             due |-> timestamp + d.armed[j].delay,
                                             delay |-> d.armed[j].delay]]]
           IN OptionsLoop(opts, k + 1, numAttempts, timestamp, err, acc2)

NoRound == [optState |-> <<>>, delayMs |-> 0, armed |-> <<>>, checked |-> <<>>,
            contributed |-> <<>>, thrown |-> Pending, vetoBy |-> 0, err |-> Undefined,
            timestamp |-> 0]

\* A variant of CatchBlock that passes over the options a second time when
\* the first pass threw nothing.
CatchBlockTwice(opts, optState, numAttempts, delayMs, timestamp, err) ==
    LET first == OptionsLoop(opts, 1, numAttempts, timestamp, err,
                             [NoRound EXCEPT !.optState = optState, !.delayMs = delayMs,
                                             !.err = Some(err), !.timestamp = timestamp])
    IN IF first.thrown # Pending THEN first
       ELSE OptionsLoop(opts, 1, numAttempts, timestamp, err, first)

CatchBlock(opts, optState, numAttempts, delayMs, timestamp, err) ==
    OptionsLoop(opts, 1, numAttempts, timestamp, err,
                [NoRound EXCEPT !.optState = optState, !.delayMs = delayMs,
                                !.err = Some(err), !.timestamp = timestamp])


\* ------------------------------------------- RetryHelper.ts: retry(thunk, opts)

\* The exceptions of the first version of retry(). The constructor of its
\* NonretriableException passes an undeclared name, err, to super(): evaluating
\* it throws a ReferenceError, so that is what `throw new
\* NonretriableException(...)` throws.
MaxAttemptsException1(message) ==
    Outcome("MaxAttemptsException", Undefined, message, Undefined)
NonretriableException1(message) == ReferenceError
MaxTimeoutException1(message) ==
    Outcome("MaxTimeoutException", Undefined, message, Undefined)

\* The exceptions of the second version of retry().
MaxAttemptsError(message) == Outcome("MaxAttemptsError", Undefined, message, Undefined)
NonretriableError(message) == Outcome("NonretriableError", Undefined, message, Undefined)

\* err?.message, for the error values the operation throws.
MessageOf(err) == Some(<<"message of", err>>)

\* opts.canRetry(err): a caller-supplied predicate, here a function from the
\* errors to booleans, with a message of its own.
CallCanRetry(opts, err) ==
    [retry |-> opts.canRetry[err], message |-> Some(<<"canRetry refuses", err>>)]

\* Date.getMilliseconds()
GetMilliseconds(t) == t % MsPerSecond

\* `for (var e in list)` enumerates the indices of the list, as strings.
Keys == <<"0", "1", "2", "3">>
IndexKeys(list) == [j \in 1..Len(list) |-> Keys[j]]

\* Array.includes
Includes(list, x) == \E j \in 1..Len(list) : list[j] = x

\* The checks of a catch block: each is [name, thrown], in the order they run;
\* the block ends at the first that throws.
RECURSIVE RunChecks(_, _)
RunChecks(checks, consulted) ==
    IF checks = <<>> THEN [thrown |-> Pending, consulted |-> consulted, vetoBy |-> "none"]
    ELSE IF Head(checks).thrown # Pending
         THEN [thrown |-> Head(checks).thrown,
               consulted |-> Append(consulted, Head(checks).name),
               vetoBy |-> Head(checks).name]
         ELSE RunChecks(Tail(checks), Append(consulted, Head(checks).name))

Check(name, configured, thrown) ==
    IF configured THEN << [name |-> name, thrown |-> thrown] >> ELSE <<>>

\* `for (var e in opts.retryableErrors) if (!opts.retryableErrors.includes(e)) throw e`
RetryableErrorsCheck1(list) ==
    LET keys == IndexKeys(list)
        bad == {j \in 1..Len(keys) : ~Includes(list, keys[j])}
    IN IF bad = {} THEN Pending
       ELSE Raw(keys[CHOOSE j \in bad : \A k \in bad : j <= k])

\* The catch block of the first version.
Retry1Catch(opts, numAttempts, err, startTime, clock) ==
    RunChecks(
        Check("maxAttempts", opts.maxAttempts # 0,
              IF numAttempts >= opts.maxAttempts
              THEN MaxAttemptsException1(MessageOf(err)) ELSE Pending)
        \o Check("canRetry", opts.hasCanRetry,
                 IF ~CallCanRetry(opts, err).retry
                 THEN NonretriableException1(CallCanRetry(opts, err).message) ELSE Pending)
        \o Check("retryableErrors", opts.retryableErrors # Undefined,
                 IF opts.retryableErrors # Undefined
                 THEN RetryableErrorsCheck1(opts.retryableErrors[1]) ELSE Pending)
        \o Check("maximumTimeoutMs", opts.maximumTimeoutMs # 0,
                 IF GetMilliseconds(clock) - GetMilliseconds(startTime) # 0
                 THEN MaxTimeoutException1(Some(<<"maximumTimeoutMs exceeded",
                                                  opts.maximumTimeoutMs>>))
                 ELSE Pending),
        <<>>)

\* `for (var e in opts.nonretryableErrors) throw new NonretriableError(err?.message)`
NonretryableErrorsCheck2(list, err) ==
    IF Len(IndexKeys(list)) > 0 THEN NonretriableError(MessageOf(err)) ELSE Pending

\* The catch block of the second version. Its loop over retryableErrors only
\* continues, whatever the list holds.
Retry2Catch(opts, numAttempts, err, startTime, clock) ==
    RunChecks(
        Check("maxAttempts", opts.maxAttempts # 0,
              IF numAttempts >= opts.maxAttempts
              THEN MaxAttemptsError(MessageOf(err)) ELSE Pending)
        \o Check("retryableErrors", opts.retryableErrors # Undefined, Pending)
        \o Check("nonretryableErrors", opts.nonretryableErrors # Undefined,
                 IF opts.nonretryableErrors # Undefined
                 THEN NonretryableErrorsCheck2(opts.nonretryableErrors[1], err) ELSE Pending)
        \o Check("canRetry", opts.hasCanRetry,
                 IF ~CallCanRetry(opts, err).retry
                 THEN NonretriableError(CallCanRetry(opts, err).message) ELSE Pending),
        <<>>)

RetryCatch(version, opts, numAttempts, err, startTime, clock) ==
    IF version = "retry1"
    THEN Retry1Catch(opts, numAttempts, err, startTime, clock)
    ELSE Retry2Catch(opts, numAttempts, err, startTime, clock)

\* ------------------------------------------- RetryHelper.ts: RetryHelper.retry

\* The constructor of the class tests this.retryOptions, not its parameter, so
\* the field is never assigned; add() pushes to the unassigned field and throws.
ClassConstructor(retryOptions) == Undefined

\* The catch block of RetryHelper.retry: the options are folded over delayMs,
\* then the engine sleeps. Iterating an undefined retryOptions throws a TypeError.
ClassCatch(retryOptions, numAttempts, delayMs, err) ==
    IF retryOptions = Undefined
    THEN [thrown |-> TypeError, delayMs |-> delayMs]
    ELSE [thrown |-> Pending, delayMs |-> delayMs]

\* ------------------------------------ RetryHelper.ts: LinearBackoffPolicy

\* `!x` for an optional number.
Falsy(x) == x = Undefined \/ x = Some(0)

\* new LinearBackoffPolicy(delay, increment): increment is assigned only when
\* the argument is missing or zero.
LinearBackoffPolicy(delay, increment) ==
    [numAttempts |-> 0, delay |-> delay,
     increment |-> IF Falsy(increment) THEN Some(delay) ELSE Undefined]

\* getDelay(): the policy after the call and the value returned.
getDelay(p) ==
    LET numAttempts == p.numAttempts + 1
    IN [policy |-> [p EXCEPT !.numAttempts = numAttempts],
        returned |-> numAttempts * p.delay]

\* ------------------------------------------- RetryHelpers.ts: DelayJitter

DelayJitter(minJitterMs, maxJitterMs) ==
    [type |-> "DelayJitter", minJitterMs |-> minJitterMs, maxJitterMs |-> maxJitterMs]

AssertionError == Outcome("AssertionError", Undefined, Undefined, Undefined)

\* The constructor of DelayJitter calls assert, a name the module neither
\* imports nor declares: where the environment defines no global assert the
\* call throws a ReferenceError and no instance is made.
DelayJitterConstructor(minJitterMs, maxJitterMs, hasAssert) ==
    IF ~hasAssert THEN ReferenceError
    ELSE IF ~(maxJitterMs > minJitterMs) THEN AssertionError
    ELSE Pending

\* Math.random() lies in [0, 1): the whole numbers of milliseconds that
\* Math.random() * width can be.
MathRandomTimes(width) == 0..(width - 1)

\* DelayJitter.retryDelayMs, random being the value of
\* Math.random() * (maxJitterMs - minJitterMs).
DelayJitterDelay(opt, st, previousDelayMs, timestamp, random) ==
    CallResult(st, Pending, random + previousDelayMs, <<>>)

VARIABLES
    engine,     \* which version of the engine this behaviour drives
    now,        \* the system clock, in milliseconds
    ticks,      \* the milliseconds gone by since the behaviour started
    helper,     \* RetryHelper instances: options, args, startTimestamp, timeout, timeoutErr
    optState,   \* the private fields of each helper's option instances
    run,        \* the run() call of each helper: its locals, its promise, its last catch block
    listeners,  \* the TIMEOUT listeners of eventEmitter, in registration order
    timers,     \* the timers armed by setTimeout and not yet fired
    uncaught,   \* the exceptions thrown by timer callbacks, which nothing catches
    fnOpts,     \* the RetryOptions passed to the function retry()
    fn,         \* the call of the function retry(): its locals and its promise
    cls,        \* the call of RetryHelper.retry(): the helper's field, the locals, the promise
    policy,     \* a LinearBackoffPolicy whose getDelay is called directly
    unit,       \* an option instance whose methods are called directly
    process     \* the Node process: whether it handles uncaught exceptions, whether it has exited

runVars == <<helper, optState, run, listeners, timers, uncaught>>
vars == <<engine, now, ticks, helper, optState, run, listeners, timers, uncaught,
          fnOpts, fn, cls, policy, unit, process>>

\* The options a helper is constructed with.
OptionChoices ==
    {MaxAttemptsRetryAllowed(n) : n \in 1..MaxAttemptsBound}
    \cup {LinearBackoff(d) : d \in 1..MaxDelay}
    \cup {MaxTimeout(t) : t \in 1..MaxTotal}
    \cup {RetriableExceptions({"ErrA"})}

OptionLists == UNION {[1..n -> OptionChoices] : n \in 0..MaxOptions}

\* new RetryHelper(f, args, options); args is optional.
NewHelper(options, hasArgs, clock) ==
    [options |-> options, hasArgs |-> hasArgs, startTimestamp |-> clock,
     timeout |-> FALSE, timeoutErr |-> Undefined]

NewRun ==
    [pc |-> "idle", numAttempts |-> 0, delayMs |-> 0, calls |-> 0, fails |-> 0,
     result |-> Undefined, sleeps |-> <<>>, outcome |-> Pending, round |-> NoRound]

\* The RetryOptions a caller passes to retry(). A list is Undefined or
\* Some(list); maxAttempts and maximumTimeoutMs are 0 when absent (the code
\* tests them for truthiness); canRetry is read only if hasCanRetry.
ErrorLists == {Undefined, Some(<<>>), Some(<<"ErrA">>)}
CanRetryChoices == [Errors -> BOOLEAN]
NoCanRetry == [e \in Errors |-> TRUE]

RetryOptions(version) ==
    {[maxAttempts |-> m, hasCanRetry |-> h, canRetry |-> c, retryableErrors |-> r,
      nonretryableErrors |-> n, maximumTimeoutMs |-> t] :
        m \in 0..MaxAttemptsBound, h \in BOOLEAN, c \in CanRetryChoices,
        r \in ErrorLists,
        n \in IF version = "retry2" THEN ErrorLists ELSE {Undefined},
        t \in IF version = "retry1" THEN 0..MaxTotal ELSE {0}}

NoRetryOptions ==
    [maxAttempts |-> 0, hasCanRetry |-> FALSE, canRetry |-> NoCanRetry,
     retryableErrors |-> Undefined, nonretryableErrors |-> Undefined,
     maximumTimeoutMs |-> 0]

NewFn ==
    [pc |-> "idle", numAttempts |-> 0, startTime |-> 0, calls |-> 0, throws |-> 0,
     err |-> Undefined, consulted |-> <<>>, vetoBy |-> "none",
     outcome |-> Pending]

\* The Node process a behaviour runs in. An exception thrown by a timer
\* callback is caught by nothing: the process handles it if the host has
\* installed an 'uncaughtException' handler, and exits otherwise.
Processes == {[handlesUncaught |-> h, exited |-> FALSE] : h \in BOOLEAN}
Running == ~process.exited

\* No policy and no option under direct calls.
NoPolicy == [object |-> Undefined, returned |-> <<>>]
NoUnit == [opt |-> Undefined, thrown |-> Pending, state |-> NewOptionState, calls |-> <<>>]

NewCls ==
    [pc |-> "idle", retryOptions |-> ClassConstructor(<<>>), numAttempts |-> 0,
     delayMs |-> 0, calls |-> 0, fails |-> 0, result |-> Undefined, sleeps |-> <<>>,
     wakeAt |-> 0, outcome |-> Pending]

InitRun ==
    /\ engine = "run"
    /\ \E opts \in OptionLists, hasArgs \in BOOLEAN :
         /\ helper = [i \in Runs |-> NewHelper(opts, hasArgs, now)]
         /\ optState = [i \in Runs |-> [k \in 1..Len(opts) |-> NewOptionState]]
    /\ fnOpts = NoRetryOptions

InitClass ==
    /\ engine = "class"
    /\ helper = [i \in Runs |-> NewHelper(<<>>, TRUE, now)]
    /\ optState = [i \in Runs |-> <<>>]
    /\ fnOpts = NoRetryOptions

InitFn ==
    /\ engine \in {"retry1", "retry2"}
    /\ helper = [i \in Runs |-> NewHelper(<<>>, TRUE, now)]
    /\ optState = [i \in Runs |-> <<>>]
    /\ fnOpts \in RetryOptions(engine)
    /\ fnOpts.hasCanRetry \/ fnOpts.canRetry = NoCanRetry

Init ==
    /\ now \in StartClocks
    /\ ticks = 0
    /\ run = [i \in Runs |-> NewRun]
    /\ listeners = <<>>
    /\ timers = {}
    /\ uncaught = {}
    /\ fn = NewFn
    /\ cls = NewCls
    /\ policy = NoPolicy
    /\ unit = NoUnit
    /\ process \in Processes
    /\ (InitRun \/ InitClass \/ InitFn)

\* run() from the catch block on: the attempt of helper i failed with err.
AfterCatch(i, r, err) ==
    LET round == CatchBlock(helper[i].options, optState[i], r.numAttempts, r.delayMs,
                            now, err)
    IN /\ optState' = [optState EXCEPT ![i] = round.optState]
       /\ timers' = timers \cup
                      {[run |-> i, kind |-> round.armed[j].kind, opt |-> round.armed[j].opt,
                        due |-> round.armed[j].due, delay |-> round.armed[j].delay]
                         : j \in 1..Len(round.armed)}
       /\ run' = [run EXCEPT ![i] =
                    [r EXCEPT !.delayMs = round.delayMs,
                              !.round = round,
                              !.pc = "done",
                              !.outcome = IF round.thrown # Pending
                                          THEN round.thrown
                                          ELSE Resolved(Undefined)]]

\* run() up to the await: the listener is registered, numAttempts counted and
\* this.f(...this.args) evaluated. Spreading an undefined args throws a
\* TypeError inside the try block, before f is called.
RunStart(i) ==
    /\ Running
    /\ engine = "run"
    /\ run[i].pc = "idle"
    /\ listeners' = Append(listeners, i)
    /\ LET r == [run[i] EXCEPT !.numAttempts = 1]
       IN IF helper[i].hasArgs
          THEN /\ run' = [run EXCEPT ![i] = [r EXCEPT !.pc = "attempting", !.calls = 1]]
               /\ UNCHANGED <<optState, timers>>
          ELSE AfterCatch(i, r, "TypeError")
    /\ UNCHANGED <<process, policy, unit, engine, now, ticks, helper, uncaught, fnOpts, fn, cls>>

\* The promise of f fulfils with v: result is assigned and run() returns.
RunResolve(i, v) ==
    /\ Running
    /\ engine = "run"
    /\ run[i].pc = "attempting"
    /\ run' = [run EXCEPT ![i] = [@ EXCEPT !.pc = "done", !.result = Some(v),
                                           !.outcome = Resolved(Undefined)]]
    /\ UNCHANGED <<process, policy, unit, engine, now, ticks, helper, optState, listeners, timers, uncaught,
                   fnOpts, fn, cls>>

\* The promise of f rejects with err: the catch block runs.
RunReject(i, err) ==
    /\ Running
    /\ engine = "run"
    /\ run[i].pc = "attempting"
    /\ AfterCatch(i, [run[i] EXCEPT !.fails = @ + 1], err)
    /\ UNCHANGED <<process, policy, unit, engine, now, ticks, helper, listeners, uncaught, fnOpts, fn, cls>>

\* What the callback of a timer throws. LinearBackoff's callback throws a
\* MaxTimeout option; MaxTimeout's callback evaluates this.throwTimeout() as
\* the argument of eventEmitter.emit, which throws before emit is called.
TimerCallback(t) ==
    IF t.kind = "linear"
    THEN [thrown |-> Outcome("MaxTimeout", Some(t.delay), Undefined, Undefined),
          emitted |-> FALSE]
    ELSE [thrown |-> MaxTimeoutThrowTimeout(helper[t.run].options[t.opt]),
          emitted |-> FALSE]

\* onErr, the TIMEOUT listener of run(): called for each listener on emit.
onErr(h, err) == [h EXCEPT !.timeout = TRUE, !.timeoutErr = Some(err)]

\* A timer comes due and its callback runs. What the callback throws is an
\* uncaught exception: without a handler the process exits, and with it every
\* timer and every call still in flight.
FireTimer(t) ==
    /\ Running
    /\ t \in timers
    /\ now >= t.due
    /\ LET cb == TimerCallback(t)
       IN /\ uncaught' = uncaught \cup {[run |-> t.run, opt |-> t.opt, thrown |-> cb.thrown]}
          /\ helper' = IF cb.emitted
                       THEN [i \in DOMAIN helper |->
                               IF \E j \in 1..Len(listeners) : listeners[j] = i
                               THEN onErr(helper[i], cb.thrown) ELSE helper[i]]
                       ELSE helper
          /\ IF cb.thrown # Pending /\ ~process.handlesUncaught
             THEN /\ process' = [process EXCEPT !.exited = TRUE]
                  /\ timers' = {}
             ELSE /\ process' = process
                  /\ timers' = timers \ {t}
    /\ UNCHANGED <<policy, unit, engine, now, ticks, optState, run, listeners, fnOpts, fn, cls>>

\* A millisecond goes by.
Tick ==
    /\ Running
    /\ ticks < MaxTicks
    /\ now' = now + 1
    /\ ticks' = ticks + 1
    /\ UNCHANGED <<process, policy, unit, engine, runVars, fnOpts, fn, cls>>

\* ----------------------------------------------------- retry(thunk, opts)

\* The body of the do block up to the call: the locals are set (startTime in
\* the first version only), numAttempts counted and thunk() called.
RetryAttempt ==
    /\ Running
    /\ engine \in {"retry1", "retry2"}
    /\ fn.pc \in {"idle", "looping"}
    /\ fn.calls < MaxCalls
    /\ fn' = [fn EXCEPT !.pc = "attempting",
                        !.startTime = IF engine = "retry1" THEN now ELSE @,
                        !.numAttempts = 0 + 1,
                        !.calls = @ + 1]
    /\ UNCHANGED <<process, policy, unit, engine, now, ticks, runVars, fnOpts, cls>>

\* thunk() returned a promise, which `return thunk()` hands to the caller
\* without awaiting it: it fulfils with v, and so does retry().
ThunkResolve(v) ==
    /\ Running
    /\ engine \in {"retry1", "retry2"}
    /\ fn.pc = "attempting"
    /\ fn' = [fn EXCEPT !.pc = "done", !.outcome = Resolved(Some(v))]
    /\ UNCHANGED <<process, policy, unit, engine, now, ticks, runVars, fnOpts, cls>>

\* The promise thunk() returned rejects with err: no catch block is in its
\* way, and retry() rejects with err itself.
ThunkReject(err) ==
    /\ Running
    /\ engine \in {"retry1", "retry2"}
    /\ fn.pc = "attempting"
    /\ fn' = [fn EXCEPT !.pc = "done", !.outcome = Raw(err)]
    /\ UNCHANGED <<process, policy, unit, engine, now, ticks, runVars, fnOpts, cls>>

\* thunk() threw err before returning a promise: the catch block runs. The do
\* block has no while condition: when the catch block throws nothing the body
\* either runs again or retry() returns undefined.
ThunkThrow(err) ==
    /\ Running
    /\ engine \in {"retry1", "retry2"}
    /\ fn.pc = "attempting"
    /\ LET c == RetryCatch(engine, fnOpts, fn.numAttempts, err, fn.startTime, now)
           f1 == [fn EXCEPT !.throws = @ + 1, !.err = Some(err),
                            !.consulted = c.consulted, !.vetoBy = c.vetoBy]
       IN IF c.thrown # Pending
          THEN fn' = [f1 EXCEPT !.pc = "done", !.outcome = c.thrown]
          ELSE \/ fn' = [f1 EXCEPT !.pc = "looping"]
               \/ fn' = [f1 EXCEPT !.pc = "done", !.outcome = Resolved(Undefined)]
    /\ UNCHANGED <<process, policy, unit, engine, now, ticks, runVars, fnOpts, cls>>

\* ------------------------------------------------------ RetryHelper.retry()

\* The top of the while (true) loop: thunk() is called and awaited. After a
\* sleep the loop is back here once the sleep's timer is due.
ClassAttempt ==
    /\ Running
    /\ engine = "class"
    /\ \/ cls.pc \in {"idle", "looping"}
       \/ cls.pc = "sleeping" /\ now >= cls.wakeAt
    /\ cls.calls < MaxCalls
    /\ cls' = [cls EXCEPT !.pc = "attempting", !.calls = @ + 1]
    /\ UNCHANGED <<process, policy, unit, engine, now, ticks, runVars, fnOpts, fn>>

\* The promise fulfils with v: val is assigned and the loop goes round again.
ClassResolve(v) ==
    /\ Running
    /\ engine = "class"
    /\ cls.pc = "attempting"
    /\ cls' = [cls EXCEPT !.pc = "looping", !.result = Some(v)]
    /\ UNCHANGED <<process, policy, unit, engine, now, ticks, runVars, fnOpts, fn>>

\* The promise rejects with err: the catch block runs.
ClassReject(err) ==
    /\ Running
    /\ engine = "class"
    /\ cls.pc = "attempting"
    /\ LET c == ClassCatch(cls.retryOptions, cls.numAttempts, cls.delayMs, err)
           c1 == [cls EXCEPT !.fails = @ + 1]
       IN IF c.thrown # Pending
          THEN cls' = [c1 EXCEPT !.pc = "done", !.outcome = c.thrown]
          ELSE cls' = [c1 EXCEPT !.pc = "sleeping", !.delayMs = c.delayMs,
                                 !.sleeps = Append(@, c.delayMs),
                                 !.wakeAt = now + c.delayMs]
    /\ UNCHANGED <<process, policy, unit, engine, now, ticks, runVars, fnOpts, fn>>

Next ==
    \/ \E i \in Runs : RunStart(i)
    \/ \E i \in Runs, v \in Values : RunResolve(i, v)
    \/ \E i \in Runs, err \in Errors : RunReject(i, err)
    \/ \E t \in timers : FireTimer(t)
    \/ Tick
    \/ RetryAttempt
    \/ \E v \in Values : ThunkResolve(v)
    \/ \E err \in Errors : ThunkReject(err)
    \/ \E err \in Errors : ThunkThrow(err)
    \/ ClassAttempt
    \/ \E v \in Values : ClassResolve(v)
    \/ \E err \in Errors : ClassReject(err)

Spec == Init /\ [][Next]_vars

\* run() alone, under the scheduling of the event loop: time passes and a due
\* timer fires. Nothing makes the caller call run(), nor the promise of the
\* operation settle.
RunInit == Init /\ engine = "run"

RunNext ==
    \/ \E i \in Runs : RunStart(i)
    \/ \E i \in Runs, v \in Values : RunResolve(i, v)
    \/ \E i \in Runs, err \in Errors : RunReject(i, err)
    \/ \E t \in timers : FireTimer(t)
    \/ Tick

FairSpec ==
    /\ RunInit
    /\ [][RunNext]_vars
    /\ WF_vars(Tick)
    /\ WF_vars(\E t \in timers : FireTimer(t))

\* ------------------------------------------- the classes, called directly

\* The option classes whose methods a caller invokes itself, and their
\* constructors: only DelayJitter's can throw.
UnitChoices ==
    {MaxAttemptsRetryAllowed(n) : n \in 1..MaxAttemptsBound}
    \cup {LinearBackoff(d) : d \in 1..MaxDelay}
    \cup {DelayJitter(a, b) : a \in 0..MaxJitter, b \in 0..MaxJitter}

Construct(opt, hasAssert) ==
    IF opt.type = "DelayJitter"
    THEN DelayJitterConstructor(opt.minJitterMs, opt.maxJitterMs, hasAssert)
    ELSE Pending

\* One call of a method: its argument (numAttempts or previousDelayMs), what
\* it threw and what it returned.
Call(method, arg, c) ==
    [method |-> method, arg |-> arg, thrown |-> c.thrown, returned |-> c.returned]

\* The timers a direct call arms; they belong to no run.
Armed(c, clock) ==
    {[run |-> 0, kind |-> c.armed[j].kind, opt |-> 0, due |-> clock + c.armed[j].delay,
      delay |-> c.armed[j].delay] : j \in 1..Len(c.armed)}

UnitInit ==
    /\ now \in StartClocks
    /\ ticks = 0
    /\ helper = [i \in Runs |-> NewHelper(<<>>, TRUE, now)]
    /\ optState = [i \in Runs |-> <<>>]
    /\ run = [i \in Runs |-> NewRun]
    /\ listeners = <<>>
    /\ timers = {}
    /\ uncaught = {}
    /\ fnOpts = NoRetryOptions
    /\ fn = NewFn
    /\ cls = NewCls
    /\ process \in Processes
    /\ \/ /\ engine = "policy"
          /\ \E d \in 1..MaxDelay, inc \in {Undefined, Some(0), Some(1)} :
               policy = [object |-> Some(LinearBackoffPolicy(d, inc)), returned |-> <<>>]
          /\ unit = NoUnit
       \/ /\ engine = "option"
          /\ policy = NoPolicy
          /\ \E opt \in UnitChoices, hasAssert \in BOOLEAN :
               unit = [opt |-> Some(opt), thrown |-> Construct(opt, hasAssert),
                       state |-> NewOptionState, calls |-> <<>>]

\* policy.getDelay()
CallGetDelay ==
    /\ Running
    /\ engine = "policy"
    /\ Len(policy.returned) < MaxCalls
    /\ LET c == getDelay(policy.object[1])
       IN policy' = [object |-> Some(c.policy), returned |-> Append(policy.returned, c.returned)]
    /\ UNCHANGED <<process, unit, engine, now, ticks, runVars, fnOpts, fn, cls>>

\* opt.checkRetryAllowed(numAttempts, new Date(), err) on a constructed option
CallCheckRetryAllowed(numAttempts, err) ==
    /\ Running
    /\ engine = "option"
    /\ unit.thrown = Pending
    /\ HasCheckRetryAllowed(unit.opt[1])
    /\ Len(unit.calls) < MaxCalls
    /\ LET c == checkRetryAllowed(unit.opt[1], unit.state, numAttempts, now, err)
       IN /\ unit' = [unit EXCEPT !.state = c.state,
                                  !.calls = Append(@, Call("checkRetryAllowed", numAttempts, c))]
          /\ timers' = timers \cup Armed(c, now)
    /\ UNCHANGED <<process, policy, engine, now, ticks, helper, optState, run, listeners, uncaught,
                   fnOpts, fn, cls>>

\* opt.retryDelayMs(previousDelayMs, new Date()) on a constructed option
CallRetryDelayMs(previousDelayMs) ==
    /\ Running
    /\ engine = "option"
    /\ unit.thrown = Pending
    /\ HasRetryDelayMs(unit.opt[1])
    /\ Len(unit.calls) < MaxCalls
    /\ \E c \in IF unit.opt[1].type = "DelayJitter"
                THEN {DelayJitterDelay(unit.opt[1], unit.state, previousDelayMs, now, random) :
                        random \in MathRandomTimes(unit.opt[1].maxJitterMs
                                                   - unit.opt[1].minJitterMs)}
                ELSE {retryDelayMs(unit.opt[1], unit.state, previousDelayMs, now)} :
         /\ unit' = [unit EXCEPT !.state = c.state,
                                 !.calls = Append(@, Call("retryDelayMs", previousDelayMs, c))]
         /\ timers' = timers \cup Armed(c, now)
    /\ UNCHANGED <<process, policy, engine, now, ticks, helper, optState, run, listeners, uncaught,
                   fnOpts, fn, cls>>

UnitNext ==
    \/ CallGetDelay
    \/ \E numAttempts \in 0..MaxCalls, err \in Errors : CallCheckRetryAllowed(numAttempts, err)
    \/ \E previousDelayMs \in 0..MaxPrevious : CallRetryDelayMs(previousDelayMs)
    \/ \E t \in timers : FireTimer(t)
    \/ Tick

UnitSpec == UnitInit /\ [][UnitNext]_vars

\* ---------------------------------------- two RetryHelpers in one process

\* Two RetryHelper instances, each with option instances of its own, whose
\* run() calls share the module's eventEmitter and the process's timers.
Pair == {1, 2}

PairOptionLists == UNION {[1..n -> OptionChoices] : n \in 0..MaxPairOptions}

PairInit ==
    /\ engine = "run"
    /\ now \in StartClocks
    /\ ticks = 0
    /\ \E lists \in [Pair -> PairOptionLists] :
         /\ helper = [i \in Pair |-> NewHelper(lists[i], TRUE, now)]
         /\ optState = [i \in Pair |-> [k \in 1..Len(lists[i]) |-> NewOptionState]]
    /\ run = [i \in Pair |-> NewRun]
    /\ listeners = <<>>
    /\ timers = {}
    /\ uncaught = {}
    /\ fnOpts = NoRetryOptions
    /\ fn = NewFn
    /\ cls = NewCls
    /\ policy = NoPolicy
    /\ unit = NoUnit
    /\ process \in Processes

PairNext ==
    \/ \E i \in Pair : RunStart(i)
    \/ \E i \in Pair, v \in Values : RunResolve(i, v)
    \/ \E i \in Pair, err \in Errors : RunReject(i, err)
    \/ \E t \in timers : FireTimer(t)
    \/ Tick

PairSpec == PairInit /\ [][PairNext]_vars

\* =================================================================== claims

\* The spec's names for the ways a run ends.
IsMaxAttemptsExceeded(o) == o.kind \in {"MaxAttemptsException", "MaxAttemptsError"}
IsNonRetriable(o) == o.kind \in {"NonretriableException", "NonretriableError"}
IsMaxTimeoutExceeded(o) == o.kind = "MaxTimeoutException"

Last(seq) == seq[Len(seq)]
Linear(k, d) == [j \in 1..k |-> j * d]
OnlyMaxAttempts(opts) ==
    /\ opts.maxAttempts >= 1 /\ ~opts.hasCanRetry /\ opts.maximumTimeoutMs = 0
    /\ opts.retryableErrors = Undefined /\ opts.nonretryableErrors = Undefined

\* C1: with maxAttempts = n and an operation that fails on every invocation,
\* the run ends with MaxAttemptsExceeded after exactly n invocations.
C1_ExactlyMaxAttemptsInvocations ==
    /\ \A i \in Runs : \A n \in 1..MaxAttemptsBound :
         ( /\ engine = "run" /\ run[i].pc = "done"
           /\ helper[i].hasArgs
           /\ helper[i].options = << MaxAttemptsRetryAllowed(n) >>
           /\ run[i].fails = run[i].calls )
         => /\ run[i].calls = n
            /\ IsMaxAttemptsExceeded(run[i].outcome)
    /\ ( /\ engine \in {"retry1", "retry2"} /\ fn.pc = "done"
         /\ OnlyMaxAttempts(fnOpts)
         /\ fn.throws = fn.calls )
       => /\ fn.calls = fnOpts.maxAttempts
          /\ IsMaxAttemptsExceeded(fn.outcome)

\* C2: an operation that fails k < maxAttempts times and then succeeds with v,
\* under a linear backoff of d: the run resolves to v after k+1 invocations
\* and k sleeps of d, 2d, ..., kd.
C2_FailsThenSucceeds ==
    /\ \A i \in Runs : \A n \in 1..MaxAttemptsBound, d \in 1..MaxDelay :
         ( /\ engine = "run"
           /\ helper[i].hasArgs
           /\ helper[i].options = << MaxAttemptsRetryAllowed(n), LinearBackoff(d) >>
           /\ run[i].result # Undefined
           /\ run[i].fails < n )
         => /\ run[i].outcome = Resolved(run[i].result)
            /\ run[i].calls = run[i].fails + 1
            /\ run[i].sleeps = Linear(run[i].fails, d)
    /\ ( engine = "class" /\ cls.result # Undefined )
       => /\ cls.outcome = Resolved(cls.result)
          /\ cls.calls = cls.fails + 1

\* C3: in a round the options are consulted in registration order, the first
\* to veto ends the round and decides what run() rejects with, and no
\* checkRetryAllowed of a later option is evaluated.
C3_RoundOf(i) == run[i].round
C3_CheckCapable(i) ==
    {k \in 1..Len(helper[i].options) : HasCheckRetryAllowed(helper[i].options[k])}
C3_KindOf(opt) ==
    CASE opt.type = "MaxAttemptsRetryAllowed" -> "MaxAttemptsException"
      [] opt.type = "MaxTimeout" -> "MaxTimeoutException"
      [] opt.type = "RetriableExceptions" -> "NonretriableException"
      [] OTHER -> "none"
C3_Configured(version, opts) ==
    (IF opts.maxAttempts # 0 THEN <<"maxAttempts">> ELSE <<>>)
    \o (IF version = "retry1" /\ opts.hasCanRetry THEN <<"canRetry">> ELSE <<>>)
    \o (IF opts.retryableErrors # Undefined THEN <<"retryableErrors">> ELSE <<>>)
    \o (IF opts.nonretryableErrors # Undefined THEN <<"nonretryableErrors">> ELSE <<>>)
    \o (IF version = "retry2" /\ opts.hasCanRetry THEN <<"canRetry">> ELSE <<>>)
    \o (IF opts.maximumTimeoutMs # 0 THEN <<"maximumTimeoutMs">> ELSE <<>>)
C3_RetryFirstVetoWins ==
    (engine \in {"retry1", "retry2"} /\ fn.err # Undefined) =>
      LET all == C3_Configured(engine, fnOpts)
      IN /\ Len(fn.consulted) <= Len(all)
         /\ fn.consulted = SubSeq(all, 1, Len(fn.consulted))
         /\ IF fn.vetoBy = "none"
            THEN fn.consulted = all
            ELSE /\ Last(fn.consulted) = fn.vetoBy
                 /\ fn.pc = "done"
                 /\ fn.outcome.kind \notin {"Pending", "Resolved"}
C3_FirstVetoWins ==
    /\ C3_RetryFirstVetoWins
    /\ \A i \in Runs :
      LET r == C3_RoundOf(i)
          cs == r.checked
          vetoed == Len(cs) > 0 /\ Last(cs).threw
      IN (engine = "run" /\ run[i].pc = "done" /\ r.err # Undefined) =>
           \* registration order, and nothing after a veto
           /\ \A j \in 1..(Len(cs) - 1) : ~cs[j].threw /\ cs[j].opt < cs[j + 1].opt
           \* every checking option up to the veto was consulted, none after it
           /\ {cs[j].opt : j \in 1..Len(cs)} =
                {k \in C3_CheckCapable(i) : ~vetoed \/ k <= Last(cs).opt}
           \* the vetoing option decides the outcome
           /\ vetoed => /\ run[i].outcome.kind = C3_KindOf(helper[i].options[Last(cs).opt])
                        /\ r.vetoBy = Last(cs).opt
           /\ ~vetoed => run[i].outcome = Resolved(Undefined)

\* C3's case: two options that both veto this failure; the first one's cause
\* is reported and the second one was never asked.
C3_Witness ==
    \E i \in Runs :
      /\ engine = "run" /\ run[i].pc = "done"
      /\ helper[i].options = << RetriableExceptions({"ErrA"}), MaxAttemptsRetryAllowed(1) >>
      /\ run[i].round.err = Some("ErrB")
      /\ run[i].outcome.kind = "NonretriableException"
      /\ Len(run[i].round.checked) = 1
      /\ optState[i][2].attempts = 0

\* C4: with retryableErrors = [ErrA], a first failure ErrB ends the loop with
\* NonRetriable carrying ErrB as cause and no further invocation; a failure in
\* the list is not vetoed by the allow-list.
C4_OnlyAllowList(opts) ==
    /\ opts.retryableErrors = Some(<<"ErrA">>)
    /\ opts.maxAttempts = 0 /\ ~opts.hasCanRetry /\ opts.maximumTimeoutMs = 0
    /\ opts.nonretryableErrors = Undefined
C4_AllowList ==
    /\ \A i \in Runs :
         ( /\ engine = "run" /\ run[i].pc = "done" /\ run[i].fails = 1
           /\ helper[i].options = << RetriableExceptions({"ErrA"}) >> )
         => IF run[i].round.err = Some("ErrA")
            THEN run[i].round.vetoBy = 0
            ELSE /\ run[i].outcome.kind = "NonretriableException"
                 /\ run[i].outcome.cause = run[i].round.err
                 /\ run[i].calls = 1
    /\ ( /\ engine \in {"retry1", "retry2"} /\ fn.throws = 1
         /\ C4_OnlyAllowList(fnOpts) )
       => IF fn.err = Some("ErrA")
          THEN fn.vetoBy # "retryableErrors"
          ELSE /\ fn.pc = "done"
               /\ IsNonRetriable(fn.outcome)
               /\ fn.calls = 1

\* C5: with a deny-list configured, a failed attempt is vetoed with
\* NonRetriable by the deny-list if and only if its error is in the list.
C5_DenyList ==
    ( /\ engine = "retry2"
      /\ fnOpts.nonretryableErrors # Undefined
      /\ \E j \in 1..Len(fn.consulted) : fn.consulted[j] = "nonretryableErrors" )
    => ( (fn.vetoBy = "nonretryableErrors" /\ IsNonRetriable(fn.outcome))
         <=> Includes(fnOpts.nonretryableErrors[1], fn.err[1]) )

\* C6: when canRetry returns retry = false for the error, the loop ends with
\* NonRetriable carrying the predicate's message and the operation is not
\* invoked again; when it returns retry = true, canRetry does not veto.
C6_CanRetryVeto ==
    ( /\ engine \in {"retry1", "retry2"}
      /\ fnOpts.hasCanRetry
      /\ \E j \in 1..Len(fn.consulted) : fn.consulted[j] = "canRetry" )
    => IF CallCanRetry(fnOpts, fn.err[1]).retry
       THEN fn.vetoBy # "canRetry"
       ELSE /\ fn.pc = "done"
            /\ IsNonRetriable(fn.outcome)
            /\ fn.outcome.message = CallCanRetry(fnOpts, fn.err[1]).message

\* C7: a supplied canRetry takes precedence over the lists: it is consulted
\* before them, and when it returns retry = true no list stops the loop.
C7_Position(name) ==
    IF \E j \in 1..Len(fn.consulted) : fn.consulted[j] = name
    THEN CHOOSE j \in 1..Len(fn.consulted) : fn.consulted[j] = name
    ELSE Len(fn.consulted) + 1
C7_CanRetryPrecedence ==
    ( /\ engine \in {"retry1", "retry2"}
      /\ fnOpts.hasCanRetry
      /\ fn.err # Undefined )
    => /\ C7_Position("retryableErrors") <= Len(fn.consulted)
            => C7_Position("canRetry") < C7_Position("retryableErrors")
       /\ C7_Position("nonretryableErrors") <= Len(fn.consulted)
            => C7_Position("canRetry") < C7_Position("nonretryableErrors")
       /\ CallCanRetry(fnOpts, fn.err[1]).retry
            => fn.vetoBy \notin {"retryableErrors", "nonretryableErrors"}

\* C8: under a MaxTimeout option, an attempt still in flight when the time
\* budget has run out is pre-empted: run() ends without waiting for the
\* operation's promise, and with MaxTimeoutExceeded unless that promise
\* settled first.
C8_HasMaxTimeout(i) ==
    \E k \in 1..Len(helper[i].options) : helper[i].options[k].type = "MaxTimeout"
C8_BudgetSpent(i) ==
    \E k \in 1..Len(helper[i].options) :
      /\ helper[i].options[k].type = "MaxTimeout"
      /\ now - helper[i].startTimestamp >= helper[i].options[k].totalTimeoutMs
C8_TimeoutPreemptsAttempt ==
    \A i \in Runs :
      [](( /\ engine = "run" /\ run[i].pc = "attempting"
           /\ C8_HasMaxTimeout(i) /\ C8_BudgetSpent(i) )
         => <>( /\ run[i].pc = "done"
                /\ (run[i].result = Undefined /\ run[i].fails = 0)
                     => IsMaxTimeoutExceeded(run[i].outcome) ))

\* C9: once run() has ended (success, attempt exhaustion, non-retriable
\* failure) no timer armed during it is still scheduled, and none has thrown.
C9_Terminal(i) ==
    /\ engine = "run" /\ run[i].pc = "done" /\ run[i].calls >= 1
    /\ \/ run[i].result # Undefined
       \/ IsMaxAttemptsExceeded(run[i].outcome)
       \/ IsNonRetriable(run[i].outcome)
C9_NoTimerAfterTerminal ==
    \A i \in Runs :
      C9_Terminal(i) => /\ \A t \in timers : t.run # i
                        /\ \A u \in uncaught : u.run # i

\* C10: MaxTimeout(totalMs).checkRetryAllowed vetoes exactly when
\* timestamp - startTimestamp >= totalMs, whatever the clock's absolute value.
C10_VetoIffElapsed ==
    \A i \in Runs :
      LET r == run[i].round
      IN (engine = "run" /\ run[i].fails >= 1) =>
           \A j \in 1..Len(r.checked) :
             LET opt == helper[i].options[r.checked[j].opt]
             IN opt.type = "MaxTimeout" =>
                  ( r.checked[j].threw
                    <=> r.timestamp - helper[i].startTimestamp >= opt.totalTimeoutMs )

\* C11: with only a total time budget t configured and an operation that
\* fails on every invocation, the engine ends with MaxTimeoutExceeded: a call
\* that has ended after nothing but failures has ended that way.
C11_OnlyMaxTimeout(opts) ==
    /\ opts.maximumTimeoutMs >= 1
    /\ opts.maxAttempts = 0 /\ ~opts.hasCanRetry
    /\ opts.retryableErrors = Undefined /\ opts.nonretryableErrors = Undefined
C11_EndsWithMaxTimeoutExceeded ==
    /\ \A i \in Runs : \A t \in 1..MaxTotal :
         ( /\ engine = "run" /\ run[i].pc = "done"
           /\ helper[i].hasArgs
           /\ helper[i].options = << MaxTimeout(t) >>
           /\ run[i].calls >= 1 /\ run[i].fails = run[i].calls )
         => IsMaxTimeoutExceeded(run[i].outcome)
    /\ ( /\ engine = "retry1" /\ fn.pc = "done"
         /\ C11_OnlyMaxTimeout(fnOpts)
         /\ fn.outcome \notin {Resolved(Some(v)) : v \in Values} )
       => IsMaxTimeoutExceeded(fn.outcome)

\* C12: every call of run() ends in exactly one of Success(value),
\* BudgetExhausted, TimedOut and NonRetriable, it has no outcome before it
\* ends, and a successful attempt makes it resolve to the operation's value.
C12_Variant(o) ==
    \/ o.kind = "Resolved" /\ o.value # Undefined
    \/ IsMaxAttemptsExceeded(o)
    \/ IsMaxTimeoutExceeded(o)
    \/ IsNonRetriable(o)
C12_OneOutcome ==
    /\ \A i \in Runs :
         (engine = "run" /\ helper[i].hasArgs) =>
           /\ run[i].pc # "done" => run[i].outcome = Pending
           /\ run[i].pc = "done" => C12_Variant(run[i].outcome)
           /\ run[i].result # Undefined => run[i].outcome = Resolved(run[i].result)
    /\ engine = "class" =>
           /\ cls.pc # "done" => cls.outcome = Pending
           /\ cls.pc = "done" => C12_Variant(cls.outcome)
           /\ cls.result # Undefined => cls.outcome = Resolved(cls.result)

\* C13: a failed attempt that no option vetoes never ends the call: the
\* engine sleeps once per such failure, and the call is still going on (about
\* to invoke the operation again) or has ended for another reason after a
\* later attempt.
C13_NonVetoedFailureRetried ==
    /\ \A i \in Runs :
         ( /\ engine = "run" /\ run[i].fails >= 1
           /\ run[i].round.thrown = Pending )
         => /\ Len(run[i].sleeps) = run[i].fails
            /\ run[i].pc = "done" => run[i].calls > run[i].fails
    /\ ( /\ engine = "retry2" /\ fn.throws >= 1
         /\ fn.vetoBy = "none" /\ fn.pc = "done" )
       => fn.calls > fn.throws

\* C14: the linear delay policy with base delay d returns k*d on its k-th
\* call, k = 1, 2, 3, ...: LinearBackoffPolicy.getDelay and the option
\* LinearBackoff.retryDelayMs alike, whatever previousDelayMs is passed.
C14_DelayCalls == SelectSeq(unit.calls, LAMBDA c : c.method = "retryDelayMs")
C14_LinearDelays ==
    /\ engine = "policy" =>
         \A k \in 1..Len(policy.returned) :
           policy.returned[k] = k * policy.object[1].delay
    /\ (engine = "option" /\ unit.opt[1].type = "LinearBackoff") =>
         \A k \in 1..Len(C14_DelayCalls) :
           C14_DelayCalls[k].returned = k * unit.opt[1].delay

\* C14's case: a third call, after calls with different previous delays.
C14_Witness ==
    /\ engine = "option" /\ unit.opt[1] = LinearBackoff(2)
    /\ Len(unit.calls) = 3
    /\ unit.calls[2].arg = 0 /\ unit.calls[3].arg = 1
    /\ unit.calls[3].returned = 6

\* C15: every delay DelayJitter.retryDelayMs returns for an input
\* previousDelayMs lies in [previousDelayMs + minJitterMs,
\* previousDelayMs + maxJitterMs), for every value of the random draw.
C15_JitterBounds ==
    (engine = "option" /\ unit.opt[1].type = "DelayJitter") =>
      \A k \in 1..Len(unit.calls) :
        /\ unit.calls[k].returned >= unit.calls[k].arg + unit.opt[1].minJitterMs
        /\ unit.calls[k].returned < unit.calls[k].arg + unit.opt[1].maxJitterMs

\* C16: in a round that no option vetoes, the delay for the next sleep is the
\* fold of the options' contributions over the previous delay, in
\* registration order: no contribution is dropped, so after the first round
\* (previous delay 0) it is the sum of the contributions, and never negative.
RECURSIVE C16_Sum(_, _)
C16_Sum(i, ks) ==
    IF ks = <<>> THEN 0
    ELSE optState[i][Head(ks)].currentDelay + C16_Sum(i, Tail(ks))
C16_DelayIsFold ==
    \A i \in Runs :
      ( /\ engine = "run" /\ run[i].pc = "done" /\ run[i].fails >= 1
        /\ run[i].round.thrown = Pending )
      => /\ run[i].delayMs >= 0
         /\ run[i].delayMs = C16_Sum(i, run[i].round.contributed)

\* C17: in a round in which an option vetoes, no option's delay contribution
\* has been called: no delay state has advanced and no delay contributor has
\* armed a timer, whatever the order of the options.
C17_ChecksBeforeDelays ==
    \A i \in Runs :
      ( /\ engine = "run" /\ run[i].fails >= 1
        /\ run[i].round.thrown # Pending )
      => /\ run[i].round.contributed = <<>>
         /\ \A k \in 1..Len(optState[i]) : optState[i][k].currentDelay = 0
         /\ \A t \in timers : t.run = i => t.kind # "linear"
         /\ run[i].sleeps = <<>>

\* C18: within one call the attempt count is incremented once per invocation
\* of the operation, before the operation runs, and never reset: once the
\* operation has been invoked k times the count is k.
C18_AttemptCount ==
    /\ \A i \in Runs :
         (engine = "run" /\ run[i].calls >= 1) => run[i].numAttempts = run[i].calls
    /\ (engine \in {"retry1", "retry2"} /\ fn.calls >= 1) => fn.numAttempts = fn.calls
    /\ (engine = "class" /\ cls.calls >= 1) => cls.numAttempts = cls.calls

\* C19: MaxAttemptsRetryAllowed(n) vetoes with MaxAttemptsExceeded on the n-th
\* call of its checkRetryAllowed and on no earlier call, whatever numAttempts
\* it is passed: its own counter goes up by one on every call and decides.
C19_VetoOnNthCall ==
    (engine = "option" /\ unit.opt[1].type = "MaxAttemptsRetryAllowed") =>
      /\ unit.state.attempts = Len(unit.calls)
      /\ \A k \in 1..Len(unit.calls) :
           /\ k < unit.opt[1].maxAttempts => unit.calls[k].thrown = Pending
           /\ k = unit.opt[1].maxAttempts => IsMaxAttemptsExceeded(unit.calls[k].thrown)

\* C19's case: the first call is passed a count above n and does not veto,
\* the n-th is passed 0 and vetoes.
C19_Witness ==
    /\ engine = "option" /\ unit.opt[1] = MaxAttemptsRetryAllowed(2)
    /\ Len(unit.calls) = 2
    /\ unit.calls[1].arg = 3 /\ unit.calls[1].thrown = Pending
    /\ unit.calls[2].arg = 0 /\ IsMaxAttemptsExceeded(unit.calls[2].thrown)

\* C20: a failed attempt triggers at most one round, in which every option's
\* checkRetryAllowed and every option's retryDelayMs is called at most once
\* (the options' own counters agree), and a successful attempt triggers no
\* call of any option.
C20_Count(seq, k) == Cardinality({j \in 1..Len(seq) : seq[j] = k})
C20_OneRoundPerFailure ==
    \A i \in Runs : engine = "run" =>
      LET r == run[i].round
          checkedOpts == [j \in 1..Len(r.checked) |-> r.checked[j].opt]
          opts == helper[i].options
      IN /\ \A k \in 1..Len(opts) :
              /\ C20_Count(checkedOpts, k) <= 1
              /\ C20_Count(r.contributed, k) <= 1
              /\ opts[k].type = "MaxAttemptsRetryAllowed"
                   => optState[i][k].attempts = C20_Count(checkedOpts, k)
              /\ opts[k].type = "LinearBackoff"
                   => optState[i][k].currentDelay = opts[k].delay * C20_Count(r.contributed, k)
         /\ r.err # Undefined => (run[i].fails = 1 \/ ~helper[i].hasArgs)
         /\ run[i].result # Undefined =>
              /\ r = NoRound
              /\ \A k \in 1..Len(opts) : optState[i][k] = NewOptionState
              /\ \A t \in timers : t.run # i

\* C20's case: one failure, a round in which a checking option and a delay
\* option were each called once.
C20_Witness ==
    \E i \in Runs :
      /\ engine = "run" /\ run[i].pc = "done" /\ run[i].fails = 1
      /\ helper[i].options = << MaxAttemptsRetryAllowed(2), LinearBackoff(2) >>
      /\ Len(run[i].round.checked) = 1 /\ run[i].round.contributed = << 2 >>
      /\ optState[i][1].attempts = 1 /\ optState[i][2].currentDelay = 2

\* C21: with two RetryHelpers running in one process, the watchdog of one
\* signalling its timeout leaves the other alone: the other's timeout flag and
\* timeoutErr stay unset, and the other's run(), if still in flight, is not
\* cut off but goes on to its own outcome.
C21_WatchdogFired(i) ==
    \E u \in uncaught : u.run = i /\ IsMaxTimeoutExceeded(u.thrown)
C21_TimeoutIsolated ==
    \A i \in Pair, j \in Pair :
      ( /\ engine = "run" /\ DOMAIN run = Pair
        /\ i # j /\ C21_WatchdogFired(i) /\ ~C21_WatchdogFired(j) )
      => /\ ~helper[j].timeout
         /\ helper[j].timeoutErr = Undefined
         /\ ~(process.exited /\ run[j].pc = "attempting")

\* C22: the TIMEOUT listeners registered on eventEmitter are as many as the
\* run() calls in flight: a run() that has ended has removed its listener, so
\* when every run() has ended no listener remains.
C22_InFlight == {i \in DOMAIN run : run[i].pc = "attempting"}
C22_ListenersMatchRunsInFlight ==
    engine = "run" =>
      /\ Len(listeners) = Cardinality(C22_InFlight)
      /\ \A i \in DOMAIN run :
           run[i].pc = "done" => \A j \in 1..Len(listeners) : listeners[j] # i

====
